---- MODULE Spec2Model ----
(***************************************************************************)
(* Model of the metrics sampling / rolling-history / threshold-alert logic *)
(* of apps/vfs-desktop/src/pages/MetricsPage.tsx.                          *)
(*                                                                         *)
(* An optional value (T | null) is a sequence: <<>> is null, <<v>> is v.   *)
(* Percentages and thresholds are integers; v < t * 0.9 is computed as     *)
(* 10 * v < 9 * t.  Time is abstracted: the 2000 ms interval timer may     *)
(* fire at any moment while it is registered, and a pending invoke may     *)
(* resolve at any moment.                                                  *)
(***************************************************************************)
EXTENDS Integers, Sequences, FiniteSets, TLC

VARIABLES
    tauri,          \* isTauriAvailable(): fixed for the whole run
    storage,        \* localStorage entry 'ursly-metric-thresholds'
    phase,          \* "Idle" | "Polling" | "Unavailable" | "Unmounted"
    timer,          \* TRUE while the setInterval registration is live
    gen,            \* number of times the polling effect has run
    inflight,       \* pending fetchMetrics calls, each with its closure
    fetches,        \* number of fetchMetrics calls started in this run
    saves,          \* number of handleSaveThresholds calls so far
    metrics,        \* useState<AllMetrics | null>
    error,          \* useState<string | null>
    sessionUptime,  \* useState(0)
    thresholds,     \* useState<ThresholdConfig>(loadThresholds)
    alerted,        \* alertedRef.current
    historicalData, \* useState<{cpu: number[], ...}>
    toasts,         \* showToast calls made by the latest step, in order
    last,           \* what the latest step was (history variable)
    samples,        \* every snapshot published so far, oldest first
    notified,       \* keys for which a toast has ever been shown
    renotified,     \* keys for which a toast has been shown more than once
    belowSince,     \* keys evaluated below 0.9 x threshold since their last toast
    resetSince,     \* keys cleared by a save or a missing reading since their last toast
    truncation,     \* fileUtils: one call of truncateMiddle / formatFilenameForGrid
    searchBox,      \* SearchBox: its props and useState values
    desktopApp      \* desktop App: useState<AllMetrics | null> and pending invokes

vars == <<tauri, storage, phase, timer, gen, inflight, fetches, saves, metrics,
          error, sessionUptime, thresholds, alerted, historicalData, toasts,
          last, samples, notified, renotified, belowSince, resetSince,
          truncation, searchBox, desktopApp>>

----------------------------------------------------------------------------
(* Bounds of the model *)

MaxFetches == 2

MaxSaves == 1

----------------------------------------------------------------------------
(* Program constants *)

HistoryKeep == 59

HistoryCapacity == HistoryKeep + 1

SessionStep == 2

DEFAULT_THRESHOLDS ==
    [cpu |-> 90, memory |-> 85, swap |-> 75, gpu |-> 90, gpuMemory |-> 90,
     temperature |-> 85, diskIO |-> 500, networkIO |-> 100]

ThresholdKeys ==
    {"cpu", "memory", "swap", "gpu", "gpuMemory", "temperature", "diskIO", "networkIO"}

TauriUnavailableMessage == "Metrics are only available in the desktop app"

FailedMessage == "Failed to load metrics"

----------------------------------------------------------------------------
(* Optional values *)

Null == <<>>

Some(v) == <<v>>

Min(a, b) == IF a <= b THEN a ELSE b

\* JavaScript truthiness of a (number | null): null and 0 are falsy
Truthy(x) == x # <<>> /\ x[1] # 0

\* x ?? 0
OrZero(x) == IF x = <<>> THEN 0 ELSE x[1]

----------------------------------------------------------------------------
(* ThresholdStore: loadThresholds / saveThresholds over localStorage *)

NoRecord == [k \in {} |-> 0]

Absent == [kind |-> "absent", rec |-> NoRecord]

Corrupt == [kind |-> "corrupt", rec |-> NoRecord]

Json(r) == [kind |-> "json", rec |-> r]

\* Mutant: the spread operands are swapped, { ...b, ...a }.
Spread_FirstWins(a, b) ==
    [k \in (DOMAIN a) \cup (DOMAIN b) |-> IF k \in DOMAIN a THEN a[k] ELSE b[k]]

\* { ...a, ...b }
Spread(a, b) ==
    [k \in (DOMAIN a) \cup (DOMAIN b) |-> IF k \in DOMAIN b THEN b[k] ELSE a[k]]

\* Mutant: no try / catch, a failed read leaves an empty configuration.
loadThresholds_NoCatch(st) ==
    IF st.kind = "json" THEN Spread(DEFAULT_THRESHOLDS, st.rec)
    ELSE IF st.kind = "absent" THEN DEFAULT_THRESHOLDS
    ELSE NoRecord

\* getItem gives null when absent; JSON.parse throws on corrupt text and the
\* catch falls through to the defaults.
loadThresholds(st) ==
    IF st.kind = "json" THEN Spread(DEFAULT_THRESHOLDS, st.rec)
    ELSE DEFAULT_THRESHOLDS

\* setItem either stores the serialised config or throws (quota), which is ignored.
saveThresholds(st, thr, ok) ==
    IF ok THEN Json(thr) ELSE st

\* localStorage.getItem itself throws (storage blocked)
Unreadable == [kind |-> "unreadable", rec |-> NoRecord]

\* In-range values a user may have saved, each different from the default
PersistedValue ==
    [cpu |-> 70, memory |-> 60, swap |-> 50, gpu |-> 75, gpuMemory |-> 80,
     temperature |-> 70, diskIO |-> 1000, networkIO |-> 200]

\* Records holding a subset of the eight keys
SubsetRecords == { [k \in S |-> PersistedValue[k]] : S \in SUBSET ThresholdKeys }

\* Records written by another version: a key this one does not know
UnknownKeyRecords == { [legacy |-> 1], [cpu |-> 70, legacy |-> 1] }

\* Records edited by hand
OutOfRangeRecords == { [swap |-> 0], [cpu |-> 500], [temperature |-> 0 - 5] }

StoreRecords ==
    {Absent, Corrupt, Unreadable}
        \cup { Json(r) : r \in SubsetRecords \cup UnknownKeyRecords \cup OutOfRangeRecords }

\* Contents the storage entry may have when the page is constructed.
StoredInputs ==
    { Absent,
      Corrupt,
      Json([swap |-> 0]) }

----------------------------------------------------------------------------
(* MetricsSnapshot inputs *)

Gpu(id, util, mem, temp) ==
    [info |-> [id |-> id],
     current |-> [gpu_utilization |-> util, memory_utilization |-> mem,
                  temperature_celsius |-> temp]]

Sys(cpu, mem, swapUsed, swapTotal, io) ==
    [cpu_usage |-> cpu, memory_usage_percent |-> mem,
     swap_used_mb |-> swapUsed, swap_total_mb |-> swapTotal,
     disk_read_bytes_sec |-> io, disk_write_bytes_sec |-> io + 1,
     network_rx_bytes_sec |-> io + 2, network_tx_bytes_sec |-> io + 3]

Snap(sys, gpus) == [system |-> sys, gpus |-> gpus]

\* Snapshots the metrics source may deliver.  Device 0 is "A", device 1 is "B".
SnapshotInputs ==
    { \* everything quiet, no swap configured, no GPU
      Snap(Sys(50, 50, 0, 0, 0), <<>>),
      \* everything hot; A hot, B cool without temperature sensor
      Snap(Sys(95, 90, 80, 100, 10),
           <<Gpu(0, 95, 95, Some(90)), Gpu(1, 50, 50, Null)>>),
      \* everything inside the hysteresis band of the default thresholds
      Snap(Sys(85, 80, 70, 100, 20),
           <<Gpu(0, 85, 85, Some(80)), Gpu(1, 50, 50, Null)>>),
      \* no swap configured but a used figure; same devices listed B first
      Snap(Sys(95, 50, 50, 0, 30),
           <<Gpu(1, 50, 50, Null), Gpu(0, 95, 95, Some(90))>>),
      \* A alone, hot, temperature reading missing
      Snap(Sys(50, 50, 0, 100, 40), <<Gpu(0, 95, 95, Null)>>) }

----------------------------------------------------------------------------
(* AlertEvaluator: checkThresholds *)

\* `gpu-${i}` and friends; i is the forEach index (0-based position in data.gpus)
GpuKey(kind, i) == kind \o "-" \o ToString(i)

swapPercent(sys) ==
    IF sys.swap_total_mb > 0
    THEN (sys.swap_used_mb * 100) \div sys.swap_total_mb
    ELSE 0

\* One compared reading: the alert key, the toast type, whether the value
\* passes the truthiness guard of its block, the value and its threshold.
Reading(key, type, has, v, t) ==
    [key |-> key, type |-> type, has |-> has, v |-> v, t |-> t]

SystemReadings(data, thr) ==
    << Reading("cpu", "warning", TRUE, data.system.cpu_usage, thr.cpu),
       Reading("memory", "warning", TRUE, data.system.memory_usage_percent, thr.memory),
       Reading("swap", "warning", TRUE, swapPercent(data.system), thr.swap) >>

GpuReadings(gpu, i, thr) ==
    << Reading(GpuKey("gpu", i), "warning", TRUE,
               gpu.current.gpu_utilization, thr.gpu),
       Reading(GpuKey("gpuMem", i), "warning", TRUE,
               gpu.current.memory_utilization, thr.gpuMemory),
       Reading(GpuKey("temp", i), "error", Truthy(gpu.current.temperature_celsius),
               OrZero(gpu.current.temperature_celsius), thr.temperature) >>

RECURSIVE AllGpuReadings(_, _, _)
AllGpuReadings(gpus, n, thr) ==
    IF n = 0 THEN <<>>
    ELSE AllGpuReadings(gpus, n - 1, thr) \o GpuReadings(gpus[n], n - 1, thr)

\* The readings in the order checkThresholds compares them.
Readings(data, thr) ==
    SystemReadings(data, thr) \o AllGpuReadings(data.gpus, Len(data.gpus), thr)

AtOrAbove(r) == r.has /\ r.v >= r.t

\* Mutant: the alert clears as soon as the value is under the threshold itself.
Below_NoHysteresis(r) == r.has /\ r.v < r.t

\* Mutant: the hysteresis factor is 0.8.
Below_Factor08(r) == r.has /\ 10 * r.v < 8 * r.t

\* v < t * 0.9
Below(r) == r.has /\ 10 * r.v < 9 * r.t

\* Mutant: every toast is a warning.
Toast_AlwaysWarning(r) == [type |-> "warning", key |-> r.key, value |-> r.v]

Toast(r) == [type |-> r.type, key |-> r.key, value |-> r.v]

\* Mutant: the !alerts.has(key) guard is forgotten.
CheckOne_NoHasGuard(st, r) ==
    IF AtOrAbove(r)
    THEN [alerts |-> st.alerts \cup {r.key}, toasts |-> Append(st.toasts, Toast(r))]
    ELSE IF ~r.has \/ Below(r)
         THEN [alerts |-> st.alerts \ {r.key}, toasts |-> st.toasts]
         ELSE st

\* Mutant: a missing reading no longer clears the key.
CheckOne_KeepsOnMissing(st, r) ==
    IF AtOrAbove(r) /\ r.key \notin st.alerts
    THEN [alerts |-> st.alerts \cup {r.key}, toasts |-> Append(st.toasts, Toast(r))]
    ELSE IF Below(r)
         THEN [alerts |-> st.alerts \ {r.key}, toasts |-> st.toasts]
         ELSE st

\* One if / else-if block of checkThresholds on the state st = [alerts, toasts]
CheckOne(st, r) ==
    IF AtOrAbove(r) /\ r.key \notin st.alerts
    THEN [alerts |-> st.alerts \cup {r.key}, toasts |-> Append(st.toasts, Toast(r))]
    ELSE IF ~r.has \/ Below(r)
         THEN [alerts |-> st.alerts \ {r.key}, toasts |-> st.toasts]
         ELSE st

RECURSIVE CheckFrom(_, _, _)
CheckFrom(rs, n, st) ==
    IF n = 0 THEN st ELSE CheckOne(CheckFrom(rs, n - 1, st), rs[n])

checkThresholds(data, thr, alerts) ==
    LET rs == Readings(data, thr)
    IN  CheckFrom(rs, Len(rs), [alerts |-> alerts, toasts |-> <<>>])

----------------------------------------------------------------------------
(* RollingHistoryBuffer: the setHistoricalData updater *)

\* s.slice(-n)
SliceLast(s, n) ==
    IF Len(s) <= n THEN s ELSE SubSeq(s, Len(s) - n + 1, Len(s))

\* Mutant: off by one, slice(-60) keeps a 61st sample.
Push_KeepsOneMore(prev, v) == Append(SliceLast(prev, HistoryKeep + 1), v)

\* [...prev.slice(-59), v]
Push(prev, v) == Append(SliceLast(prev, HistoryKeep), v)

EmptyHistory ==
    [cpu |-> <<>>, memory |-> <<>>, swap |-> <<>>, gpu |-> <<>>, gpuMem |-> <<>>,
     gpuTemp |-> <<>>, diskRead |-> <<>>, diskWrite |-> <<>>, netRx |-> <<>>,
     netTx |-> <<>>]

\* gpu?.current.X ?? 0 with gpu = data.gpus[0]
FirstGpu(data, field) ==
    IF Len(data.gpus) = 0 THEN 0 ELSE data.gpus[1].current[field]

FirstGpuTemp(data) ==
    IF Len(data.gpus) = 0 THEN 0 ELSE OrZero(data.gpus[1].current.temperature_celsius)

\* Mutant: a snapshot without GPU leaves the three GPU series as they are.
UpdateHistory_SkipsGpuSeries(prev, data) ==
    [cpu |-> Push(prev.cpu, data.system.cpu_usage),
     memory |-> Push(prev.memory, data.system.memory_usage_percent),
     swap |-> Push(prev.swap, swapPercent(data.system)),
     gpu |-> IF Len(data.gpus) = 0 THEN prev.gpu
             ELSE Push(prev.gpu, FirstGpu(data, "gpu_utilization")),
     gpuMem |-> IF Len(data.gpus) = 0 THEN prev.gpuMem
                ELSE Push(prev.gpuMem, FirstGpu(data, "memory_utilization")),
     gpuTemp |-> IF Len(data.gpus) = 0 THEN prev.gpuTemp
                 ELSE Push(prev.gpuTemp, FirstGpuTemp(data)),
     diskRead |-> Push(prev.diskRead, data.system.disk_read_bytes_sec),
     diskWrite |-> Push(prev.diskWrite, data.system.disk_write_bytes_sec),
     netRx |-> Push(prev.netRx, data.system.network_rx_bytes_sec),
     netTx |-> Push(prev.netTx, data.system.network_tx_bytes_sec)]

UpdateHistory(prev, data) ==
    [cpu |-> Push(prev.cpu, data.system.cpu_usage),
     memory |-> Push(prev.memory, data.system.memory_usage_percent),
     swap |-> Push(prev.swap, swapPercent(data.system)),
     gpu |-> Push(prev.gpu, FirstGpu(data, "gpu_utilization")),
     gpuMem |-> Push(prev.gpuMem, FirstGpu(data, "memory_utilization")),
     gpuTemp |-> Push(prev.gpuTemp, FirstGpuTemp(data)),
     diskRead |-> Push(prev.diskRead, data.system.disk_read_bytes_sec),
     diskWrite |-> Push(prev.diskWrite, data.system.disk_write_bytes_sec),
     netRx |-> Push(prev.netRx, data.system.network_rx_bytes_sec),
     netTx |-> Push(prev.netTx, data.system.network_tx_bytes_sec)]

----------------------------------------------------------------------------
(* fileUtils: truncateMiddle and formatFilenameForGrid.  A string is the
   sequence of its characters. *)

DefaultMaxLength == 25

DefaultCharsPerLine == 14

ellipsis == <<".", ".", ".">>

Clamp(x, n) == IF x < 0 THEN 0 ELSE IF x > n THEN n ELSE x

\* s.substring(a, b): both indices clamped to 0..length and swapped if a > b
substring(s, a, b) ==
    LET x  == Clamp(a, Len(s))
        y  == Clamp(b, Len(s))
        lo == IF x <= y THEN x ELSE y
        hi == IF x <= y THEN y ELSE x
    IN  SubSeq(s, lo + 1, hi)

\* s.substring(a)
substringFrom(s, a) == substring(s, a, Len(s))

\* s.lastIndexOf(c), 0-based, -1 when c does not occur
lastIndexOf(s, c) ==
    LET at == { i \in 1..Len(s) : s[i] = c }
    IN  IF at = {} THEN 0 - 1
        ELSE (CHOOSE i \in at : \A j \in at : j <= i) - 1

\* s.trimEnd()
RECURSIVE trimEnd(_)
trimEnd(s) ==
    IF s # <<>> /\ s[Len(s)] = " " THEN trimEnd(SubSeq(s, 1, Len(s) - 1)) ELSE s

truncateMiddle(filename, maxLength) ==
    IF Len(filename) <= maxLength THEN filename
    ELSE
      LET lastDotIndex == lastIndexOf(filename, ".")
          hasExtension == lastDotIndex > 0 /\ lastDotIndex < Len(filename) - 1
          name == IF hasExtension THEN substring(filename, 0, lastDotIndex) ELSE filename
          extension == IF hasExtension THEN substringFrom(filename, lastDotIndex) ELSE <<>>
          \* Math.min(extension.length + 6, Math.floor(maxLength * 0.4))
          reserveForEnd == Min(Len(extension) + 6, (4 * maxLength) \div 10)
          reserveForStart == maxLength - reserveForEnd - Len(ellipsis)
          start == substring(name, 0, reserveForStart)
          endNamePortion ==
              IF reserveForEnd - Len(extension) > 0
              THEN reserveForEnd - Len(extension) ELSE 0
          endOfName ==
              IF endNamePortion > 0
              THEN substringFrom(name, Len(name) - endNamePortion) ELSE <<>>
      IN  IF reserveForStart < 4
          THEN substring(filename, 0, maxLength - 3) \o ellipsis
          ELSE trimEnd(start) \o ellipsis \o endOfName \o extension

formatFilenameForGrid(filename, charsPerLine) ==
    truncateMiddle(filename, charsPerLine * 2)

\* No call has been made
NoCall == [fn |-> "none", filename |-> <<>>, arg |-> 0, result |-> Null]

----------------------------------------------------------------------------
(* SearchBox: suggestions.  A string is the sequence of its characters. *)

\* An operator without predefined values has values = Null
SEARCH_OPERATORS ==
    <<
      \* tag:
      [operator |-> <<"t", "a", "g", ":">>, values |-> Null],
      \* type: video image audio document folder archive
      [operator |-> <<"t", "y", "p", "e", ":">>,
       values |-> Some(<<<<"v", "i", "d", "e", "o">>,
                   <<"i", "m", "a", "g", "e">>,
                   <<"a", "u", "d", "i", "o">>,
                   <<"d", "o", "c", "u", "m", "e", "n", "t">>,
                   <<"f", "o", "l", "d", "e", "r">>,
                   <<"a", "r", "c", "h", "i", "v", "e">>>>)],
      \* tier: hot cold nearline
      [operator |-> <<"t", "i", "e", "r", ":">>,
       values |-> Some(<<<<"h", "o", "t">>,
                   <<"c", "o", "l", "d">>,
                   <<"n", "e", "a", "r", "l", "i", "n", "e">>>>)],
      \* ext: mp4 mov jpg png pdf doc zip
      [operator |-> <<"e", "x", "t", ":">>,
       values |-> Some(<<<<"m", "p", "4">>,
                   <<"m", "o", "v">>,
                   <<"j", "p", "g">>,
                   <<"p", "n", "g">>,
                   <<"p", "d", "f">>,
                   <<"d", "o", "c">>,
                   <<"z", "i", "p">>>>)],
      \* is: folder file hidden cached tagged
      [operator |-> <<"i", "s", ":">>,
       values |-> Some(<<<<"f", "o", "l", "d", "e", "r">>,
                   <<"f", "i", "l", "e">>,
                   <<"h", "i", "d", "d", "e", "n">>,
                   <<"c", "a", "c", "h", "e", "d">>,
                   <<"t", "a", "g", "g", "e", "d">>>>)],
      \* size: >1mb >10mb >100mb >1gb <1mb <10mb
      [operator |-> <<"s", "i", "z", "e", ":">>,
       values |-> Some(<<<<">", "1", "m", "b">>,
                   <<">", "1", "0", "m", "b">>,
                   <<">", "1", "0", "0", "m", "b">>,
                   <<">", "1", "g", "b">>,
                   <<"<", "1", "m", "b">>,
                   <<"<", "1", "0", "m", "b">>>>)],
      \* modified: today yesterday week month year
      [operator |-> <<"m", "o", "d", "i", "f", "i", "e", "d", ":">>,
       values |-> Some(<<<<"t", "o", "d", "a", "y">>,
                   <<"y", "e", "s", "t", "e", "r", "d", "a", "y">>,
                   <<"w", "e", "e", "k">>,
                   <<"m", "o", "n", "t", "h">>,
                   <<"y", "e", "a", "r">>>>)]
    >>


\* The characters of the inputs, in code unit order
CodeUnits ==
    <<" ", ".", "0", "1", "2", "3", "4", "5", "6", "7", "8", "9", ":",
      "<", ">", "A", "B", "C", "D", "E", "F", "G", "H", "I", "J", "K",
      "L", "M", "N", "O", "P", "Q", "R", "S", "T", "U", "V", "W", "X",
      "Y", "Z", "a", "b", "c", "d", "e", "f", "g", "h", "i", "j", "k",
      "l", "m", "n", "o", "p", "q", "r", "s", "t", "u", "v", "w", "x",
      "y", "z">>

UpperCase == <<"A", "B", "C", "D", "E", "F", "G", "H", "I", "J", "K", "L", "M",
      "N", "O", "P", "Q", "R", "S", "T", "U", "V", "W", "X", "Y", "Z">>

LowerCase == <<"a", "b", "c", "d", "e", "f", "g", "h", "i", "j", "k", "l", "m",
      "n", "o", "p", "q", "r", "s", "t", "u", "v", "w", "x", "y", "z">>


IndexIn(seq, c) == CHOOSE i \in 1..Len(seq) : seq[i] = c

IsUpper(c) == \E i \in 1..Len(UpperCase) : UpperCase[i] = c

IsLetter(c) == IsUpper(c) \/ \E i \in 1..Len(LowerCase) : LowerCase[i] = c

\* s.toLowerCase()
toLowerCase(s) ==
    [j \in 1..Len(s) |-> IF IsUpper(s[j]) THEN LowerCase[IndexIn(UpperCase, s[j])] ELSE s[j]]

\* s.includes(sub)
includes(s, sub) ==
    \E i \in 0..(Len(s) - Len(sub)) : SubSeq(s, i + 1, i + Len(sub)) = sub

\* s.startsWith(p)
startsWith(s, p) == Len(p) <= Len(s) /\ SubSeq(s, 1, Len(p)) = p

\* s.trim() === ''
IsBlank(s) == \A j \in 1..Len(s) : s[j] = " "

\* a < b as Array.prototype.sort compares strings
StringLess(a, b) ==
    \/ Len(a) < Len(b) /\ SubSeq(b, 1, Len(a)) = a
    \/ \E i \in 1..Min(Len(a), Len(b)) :
          /\ SubSeq(a, 1, i - 1) = SubSeq(b, 1, i - 1)
          /\ IndexIn(CodeUnits, a[i]) < IndexIn(CodeUnits, b[i])

\* Array.from(set).sort()
RECURSIVE SortedStrings(_)
SortedStrings(S) ==
    IF S = {} THEN <<>>
    ELSE LET least == CHOOSE a \in S : \A b \in S \ {a} : StringLess(a, b)
         IN  <<least>> \o SortedStrings(S \ {least})

\* The elements of seq at the positions in keep, in order
SubSeqAt(seq, keep) ==
    [n \in 1..Cardinality(keep) |->
        seq[CHOOSE i \in keep : Cardinality({ k \in keep : k < i }) = n - 1]]

\* [...new Set(seq)]: first occurrences, in order
Dedupe(seq) ==
    SubSeqAt(seq, { i \in 1..Len(seq) : \A j \in 1..(i - 1) : seq[j] # seq[i] })

\* seq.slice(0, n)
SliceFirst(seq, n) == SubSeq(seq, 1, Min(n, Len(seq)))

RangeOf(seq) == { seq[j] : j \in 1..Len(seq) }

availableTags(files) ==
    SortedStrings(UNION { RangeOf(files[j].tags) : j \in 1..Len(files) })

\* name.split('.').pop()
LastDotPart(name) == substringFrom(name, lastIndexOf(name, ".") + 1)

availableExtensions(files) ==
    SortedStrings({ toLowerCase(LastDotPart(files[j].name)) :
                      j \in { n \in 1..Len(files) :
                                /\ ~files[n].isDirectory
                                /\ Len(LastDotPart(files[n].name)) \in 1..10 } })

\* words[words.length - 1] of text.split(/\s+/)
CurrentWord(text) == substringFrom(text, lastIndexOf(text, " ") + 1)

\* Position of the colon of /^([a-z]+:)(.*)$/i in word, 0 when no match
OperatorColon(word) ==
    LET colons == { k \in 2..Len(word) :
                      word[k] = ":" /\ \A j \in 1..(k - 1) : IsLetter(word[j]) }
    IN  IF colons = {} THEN 0 ELSE CHOOSE k \in colons : TRUE

\* The context for the current word and the position k of its operator colon.
\* text.slice(0, -n) is '' for n = 0.
ContextAt(value, currentWord, k) ==
    LET prefix == IF Len(currentWord) = 0 THEN <<>>
                  ELSE SubSeq(value, 1, Len(value) - Len(currentWord))
    IN  IF k > 0
        THEN [prefix |-> prefix,
              operator |-> Some(toLowerCase(SubSeq(currentWord, 1, k))),
              partialValue |-> SubSeq(currentWord, k + 1, Len(currentWord))]
        ELSE [prefix |-> prefix, operator |-> Null, partialValue |-> currentWord]

\* The cursor is at the end of the input: textBeforeCursor = value.
getCurrentContext(value) ==
    ContextAt(value, CurrentWord(value), OperatorColon(CurrentWord(value)))

Suggestion(type, value) == [type |-> type, value |-> value]

\* seq.filter(v => v.toLowerCase().includes(partial.toLowerCase()))
Matching(seq, partial) ==
    SubSeqAt(seq, { i \in 1..Len(seq) :
                      includes(toLowerCase(seq[i]), toLowerCase(partial)) })

tagPrefix == <<"t", "a", "g", ":">>

extPrefix == <<"e", "x", "t", ":">>

OperatorSuggestions(ops) ==
    [j \in 1..Len(ops) |-> Suggestion("operator", ops[j].operator)]

ValueSuggestions(type, operator, values) ==
    [j \in 1..Len(values) |-> Suggestion(type, operator \o values[j])]

FileSuggestions(files) ==
    [j \in 1..Len(files) |->
        Suggestion(IF files[j].isDirectory THEN "folder" ELSE "file", files[j].name)]

\* op?.values || [] with op = SEARCH_OPERATORS.find(o => o.operator === operator)
OperatorValues(operator) ==
    LET found == SubSeqAt(SEARCH_OPERATORS,
                          { i \in 1..Len(SEARCH_OPERATORS) :
                              SEARCH_OPERATORS[i].operator = operator })
    IN  IF found = <<>> \/ found[1].values = Null THEN <<>> ELSE found[1].values[1]

\* The body of the suggestions useMemo for the context ctx and the tags
SuggestionsIn(sb, ctx, tags) ==
    IF ~sb.isFocused THEN <<>>
    ELSE SliceFirst(
      IF ctx.operator # Null
      THEN IF ctx.operator[1] = tagPrefix
           THEN ValueSuggestions("tag", tagPrefix,
                    SliceFirst(Matching(tags, ctx.partialValue), 8))
           ELSE IF ctx.operator[1] = extPrefix
           THEN ValueSuggestions("value", extPrefix,
                    SliceFirst(Matching(Dedupe(availableExtensions(sb.files)
                                                 \o OperatorValues(extPrefix)),
                                        ctx.partialValue), 8))
           ELSE ValueSuggestions("value", ctx.operator[1],
                    Matching(OperatorValues(ctx.operator[1]),
                             ctx.partialValue))
      ELSE IF ctx.partialValue = <<>> /\ IsBlank(sb.value)
      THEN OperatorSuggestions(SliceFirst(SEARCH_OPERATORS, 6))
      ELSE IF Len(ctx.partialValue) > 0
      THEN OperatorSuggestions(
               SubSeqAt(SEARCH_OPERATORS,
                        { i \in 1..Len(SEARCH_OPERATORS) :
                            startsWith(SEARCH_OPERATORS[i].operator,
                                       toLowerCase(ctx.partialValue)) }))
           \o FileSuggestions(
                 SliceFirst(SubSeqAt(sb.files,
                                     { i \in 1..Len(sb.files) :
                                         includes(toLowerCase(sb.files[i].name),
                                                  toLowerCase(ctx.partialValue)) }),
                            5))
           \o ValueSuggestions("tag", tagPrefix,
                  SliceFirst(Matching(tags, ctx.partialValue), 3))
      ELSE <<>>,
      10)

\* The suggestions useMemo
suggestions(sb) ==
    SuggestionsIn(sb, getCurrentContext(sb.value), availableTags(sb.files))

File(name, isDirectory, tags) == [name |-> name, isDirectory |-> isDirectory, tags |-> tags]


\* The files prop: nothing listed, or trip.mov, Tax.PDF, photos, notes
FilesInputs ==
    { <<>>,
      <<File(<<"t", "r", "i", "p", ".", "m", "o", "v">>, FALSE,
             <<<<"t", "r", "a", "v", "e", "l">>>>),
        File(<<"T", "a", "x", ".", "P", "D", "F">>, FALSE,
             <<<<"w", "o", "r", "k">>, <<"t", "r", "a", "v", "e", "l">>>>),
        File(<<"p", "h", "o", "t", "o", "s">>, TRUE,
             <<>>),
        File(<<"n", "o", "t", "e", "s">>, FALSE,
             <<<<"w", "o", "r", "k">>>>)>> }


\* What the user may have typed
QueryInputs ==
    { <<>>,
      <<" ">>,
      <<"t">>,
      <<"T">>,
      <<"t", "r">>,
      <<"z", "z">>,
      <<"t", "a", "g", ":">>,
      <<"t", "y", "p", "e", ":", "v">>,
      <<"e", "x", "t", ":", "p">>,
      <<"x", ":">>,
      <<"i", "s", ":", "f", " ", "t">> }

\* SearchBox as constructed: empty query, no files, useState(false),
\* useState(0), and the memoized suggestions of that render
SearchBoxInit ==
    [value |-> <<>>, files |-> <<>>, isFocused |-> FALSE, selectedIndex |-> 0,
     suggestions |-> <<>>, event |-> "mount"]

----------------------------------------------------------------------------
(* Desktop App: state after construction *)

\* No handler has run yet
NoEvent == [op |-> "mount", gpu_id |-> 0, metrics |-> 0, data |-> Null]

\* useState(null), useState(true), useState(null); the initial invoke is
\* pending, no poll has started, no gpu-metrics event has been delivered
DesktopAppInit ==
    [metrics |-> Null, isLoading |-> TRUE, error |-> Null, initial |-> "pending",
     pending |-> 0, polls |-> 0, events |-> 0, event |-> NoEvent]

\* The components that are not part of the run under study, as constructed
Elsewhere ==
    /\ truncation = NoCall
    /\ searchBox = SearchBoxInit
    /\ desktopApp = DesktopAppInit

----------------------------------------------------------------------------
(* MetricsPage: state after construction *)

PageInit ==
    /\ tauri \in BOOLEAN
    /\ storage \in StoredInputs
    /\ phase = "Idle"
    /\ timer = FALSE
    /\ gen = 0
    /\ inflight = <<>>
    /\ fetches = 0
    /\ saves = 0
    /\ metrics = Null
    /\ error = Null
    /\ sessionUptime = 0
    /\ thresholds = loadThresholds(storage)
    /\ alerted = {}
    /\ historicalData = EmptyHistory
    /\ toasts = <<>>
    /\ last = [op |-> "init", data |-> Null, thr |-> Null, stale |-> FALSE]
    /\ samples = <<>>
    /\ notified = {}
    /\ renotified = {}
    /\ belowSince = {}
    /\ resetSince = {}

Init == Elsewhere /\ PageInit

Mounted == phase \in {"Polling", "Unavailable"}

\* A call of fetchMetrics that awaits invokeTauri: it keeps the thresholds its
\* closure captured and the generation of the polling effect that was current.
NewFetch(g, thr) == [gen |-> g, thr |-> thr]

\* The effect of a fetch is stale when the polling effect it was started under
\* has been cleaned up (a later effect run replaced it, or the page unmounted).
Stale(f) == f.gen < gen \/ phase = "Unmounted"

RemoveAt(s, i) == SubSeq(s, 1, i - 1) \o SubSeq(s, i + 1, Len(s))

ToastKeys(ts) == { ts[j].key : j \in 1..Len(ts) }

KeysWhere(rs, P(_)) == { rs[j].key : j \in { n \in 1..Len(rs) : P(rs[n]) } }

Missing(r) == ~r.has

Step(op, data, thr, stale) == [op |-> op, data |-> data, thr |-> thr, stale |-> stale]

----------------------------------------------------------------------------
(* MetricsSamplingLoop: the polling effect, its timer and fetchMetrics *)

\* Mutant: the effect only registers the interval; the first fetch waits for
\* the first firing.
Mount_WaitsOneInterval ==
    /\ phase = "Idle"
    /\ gen' = gen + 1
    /\ IF tauri
       THEN /\ timer' = TRUE
            /\ phase' = "Polling"
            /\ error' = error
       ELSE /\ error' = Some(TauriUnavailableMessage)
            /\ phase' = "Unavailable"
            /\ timer' = timer
    /\ toasts' = <<>>
    /\ last' = Step("mount", Null, Null, FALSE)
    /\ UNCHANGED <<truncation, searchBox, desktopApp, tauri, storage, inflight, fetches, saves, metrics, sessionUptime,
                   thresholds, alerted, historicalData, samples, notified,
                   renotified, belowSince, resetSince>>

\* First run of the polling useEffect.
Mount ==
    /\ phase = "Idle"
    /\ gen' = gen + 1
    /\ IF tauri
       THEN /\ inflight' = Append(inflight, NewFetch(gen + 1, thresholds))
            /\ fetches' = fetches + 1
            /\ timer' = TRUE
            /\ phase' = "Polling"
            /\ error' = error
       ELSE /\ error' = Some(TauriUnavailableMessage)
            /\ phase' = "Unavailable"
            /\ UNCHANGED <<inflight, fetches, timer>>
    /\ toasts' = <<>>
    /\ last' = Step("mount", Null, Null, FALSE)
    /\ UNCHANGED <<truncation, searchBox, desktopApp, tauri, storage, saves, metrics, sessionUptime, thresholds,
                   alerted, historicalData, samples, notified, renotified, belowSince, resetSince>>

\* The setInterval callback: calls fetchMetrics whatever is still pending.
IntervalTick ==
    /\ timer
    /\ fetches < MaxFetches
    /\ inflight' = Append(inflight, NewFetch(gen, thresholds))
    /\ fetches' = fetches + 1
    /\ toasts' = <<>>
    /\ last' = Step("tick", Null, Null, FALSE)
    /\ UNCHANGED <<truncation, searchBox, desktopApp, tauri, storage, phase, timer, gen, saves, metrics, error,
                   sessionUptime, thresholds, alerted, historicalData, samples,
                   notified, renotified, belowSince, resetSince>>

\* The Retry button of the error view: onClick={fetchMetrics}.
Retry ==
    /\ Mounted
    /\ error # Null
    /\ fetches < MaxFetches
    /\ inflight' = Append(inflight, NewFetch(gen, thresholds))
    /\ fetches' = fetches + 1
    /\ toasts' = <<>>
    /\ last' = Step("retry", Null, Null, FALSE)
    /\ UNCHANGED <<truncation, searchBox, desktopApp, tauri, storage, phase, timer, gen, saves, metrics, error,
                   sessionUptime, thresholds, alerted, historicalData, samples,
                   notified, renotified, belowSince, resetSince>>

\* Mutant: the snapshot is published without being appended to the histories.
FetchResolved_PublishesOnly(i, data) ==
    /\ tauri
    /\ i \in 1..Len(inflight)
    /\ LET f   == inflight[i]
           rs  == Readings(data, f.thr)
           out == checkThresholds(data, f.thr, alerted)
           tk  == ToastKeys(out.toasts)
       IN  /\ IF phase # "Unmounted"
              THEN /\ metrics' = Some(data)
                   /\ error' = Null
                   /\ sessionUptime' = sessionUptime + SessionStep
                   /\ historicalData' = historicalData
                   /\ samples' = Append(samples, data)
              ELSE UNCHANGED <<metrics, error, sessionUptime, historicalData, samples>>
           /\ alerted' = out.alerts
           /\ toasts' = out.toasts
           /\ last' = Step("resolved", Some(data), Some(f.thr), Stale(f))
           /\ notified' = notified \cup tk
           /\ renotified' = renotified \cup (notified \cap tk)
           /\ belowSince' = (belowSince \cup KeysWhere(rs, Below)) \ tk
           /\ resetSince' = (resetSince \cup KeysWhere(rs, Missing)) \ tk
    /\ inflight' = RemoveAt(inflight, i)
    /\ UNCHANGED <<truncation, searchBox, desktopApp, tauri, storage, phase, timer, gen, fetches, saves, thresholds>>

\* Mutant: the evaluation reads the cpu limit from the current state and the
\* other limits from its closure.
FetchResolved_ReadsCpuLate(i, data) ==
    /\ tauri
    /\ i \in 1..Len(inflight)
    /\ LET f   == inflight[i]
           mix == [f.thr EXCEPT !.cpu = thresholds.cpu]
           rs  == Readings(data, mix)
           out == checkThresholds(data, mix, alerted)
           tk  == ToastKeys(out.toasts)
       IN  /\ IF phase # "Unmounted"
              THEN /\ metrics' = Some(data)
                   /\ error' = Null
                   /\ sessionUptime' = sessionUptime + SessionStep
                   /\ historicalData' = UpdateHistory(historicalData, data)
                   /\ samples' = Append(samples, data)
              ELSE UNCHANGED <<metrics, error, sessionUptime, historicalData, samples>>
           /\ alerted' = out.alerts
           /\ toasts' = out.toasts
           /\ last' = Step("resolved", Some(data), Some(f.thr), Stale(f))
           /\ notified' = notified \cup tk
           /\ renotified' = renotified \cup (notified \cap tk)
           /\ belowSince' = (belowSince \cup KeysWhere(rs, Below)) \ tk
           /\ resetSince' = (resetSince \cup KeysWhere(rs, Missing)) \ tk
    /\ inflight' = RemoveAt(inflight, i)
    /\ UNCHANGED <<truncation, searchBox, desktopApp, tauri, storage, phase, timer, gen, fetches, saves, thresholds>>

\* fetchMetrics after its await resolved with data.  The state setters do
\* nothing once the page is unmounted; checkThresholds runs regardless.
FetchResolved(i, data) ==
    /\ tauri
    /\ i \in 1..Len(inflight)
    /\ LET f   == inflight[i]
           rs  == Readings(data, f.thr)
           out == checkThresholds(data, f.thr, alerted)
           tk  == ToastKeys(out.toasts)
       IN  /\ IF phase # "Unmounted"
              THEN /\ metrics' = Some(data)
                   /\ error' = Null
                   /\ sessionUptime' = sessionUptime + SessionStep
                   /\ historicalData' = UpdateHistory(historicalData, data)
                   /\ samples' = Append(samples, data)
              ELSE UNCHANGED <<metrics, error, sessionUptime, historicalData, samples>>
           /\ alerted' = out.alerts
           /\ toasts' = out.toasts
           /\ last' = Step("resolved", Some(data), Some(f.thr), Stale(f))
           /\ notified' = notified \cup tk
           /\ renotified' = renotified \cup (notified \cap tk)
           /\ belowSince' = (belowSince \cup KeysWhere(rs, Below)) \ tk
           /\ resetSince' = (resetSince \cup KeysWhere(rs, Missing)) \ tk
    /\ inflight' = RemoveAt(inflight, i)
    /\ UNCHANGED <<truncation, searchBox, desktopApp, tauri, storage, phase, timer, gen, fetches, saves, thresholds>>

\* Mutant: the catch block also resets the alert bookkeeping.
FetchRejected_ResetsAlerts(i) ==
    /\ i \in 1..Len(inflight)
    /\ IF phase # "Unmounted"
       THEN error' = Some(IF tauri THEN FailedMessage ELSE TauriUnavailableMessage)
       ELSE error' = error
    /\ alerted' = {}
    /\ toasts' = <<>>
    /\ last' = Step("rejected", Null, Some(inflight[i].thr), Stale(inflight[i]))
    /\ inflight' = RemoveAt(inflight, i)
    /\ UNCHANGED <<truncation, searchBox, desktopApp, tauri, storage, phase, timer, gen, fetches, saves, metrics,
                   sessionUptime, thresholds, historicalData, samples,
                   notified, renotified, belowSince, resetSince>>

\* Mutant: the catch block gives up polling.
FetchRejected_StopsPolling(i) ==
    /\ i \in 1..Len(inflight)
    /\ IF phase # "Unmounted"
       THEN error' = Some(IF tauri THEN FailedMessage ELSE TauriUnavailableMessage)
       ELSE error' = error
    /\ timer' = FALSE
    /\ toasts' = <<>>
    /\ last' = Step("rejected", Null, Some(inflight[i].thr), Stale(inflight[i]))
    /\ inflight' = RemoveAt(inflight, i)
    /\ UNCHANGED <<truncation, searchBox, desktopApp, tauri, storage, phase, gen, fetches, saves, metrics,
                   sessionUptime, thresholds, alerted, historicalData, samples,
                   notified, renotified, belowSince, resetSince>>

\* fetchMetrics after its await threw: the catch block.
FetchRejected(i) ==
    /\ i \in 1..Len(inflight)
    /\ IF phase # "Unmounted"
       THEN error' = Some(IF tauri THEN FailedMessage ELSE TauriUnavailableMessage)
       ELSE error' = error
    /\ toasts' = <<>>
    /\ last' = Step("rejected", Null, Some(inflight[i].thr), Stale(inflight[i]))
    /\ inflight' = RemoveAt(inflight, i)
    /\ UNCHANGED <<truncation, searchBox, desktopApp, tauri, storage, phase, timer, gen, fetches, saves, metrics,
                   sessionUptime, thresholds, alerted, historicalData, samples,
                   notified, renotified, belowSince, resetSince>>

----------------------------------------------------------------------------
(* Settings modal: Save Changes *)

\* thresholdItems: min and max of each slider
ThresholdRange ==
    [cpu |-> 50..100, memory |-> 50..100, swap |-> 25..100, gpu |-> 50..100,
     gpuMemory |-> 50..100, temperature |-> 60..100, diskIO |-> 100..2000,
     networkIO |-> 10..1000]

\* Slider moves tried in the modal (each within the slider's min..max, on its step)
SliderEdits == { <<"cpu", 50>> }

\* What the modal's local state can hold when Save is pressed: the current
\* config untouched, the defaults (Reset to Defaults), or a slider edit.
SaveInputs(thr) ==
    {thr, DEFAULT_THRESHOLDS} \cup { [thr EXCEPT ![e[1]] = e[2]] : e \in SliderEdits }

\* Mutant: a failed write keeps the previous configuration in memory.
handleSaveThresholds_RevertsOnFailedWrite(newThresholds, changed, writeOk) ==
    /\ phase = "Polling"
    /\ error = Null
    /\ metrics # Null
    /\ saves < MaxSaves
    /\ newThresholds # thresholds => changed
    /\ changed => fetches < MaxFetches
    /\ saves' = saves + 1
    /\ thresholds' = IF writeOk THEN newThresholds ELSE thresholds
    /\ storage' = saveThresholds(storage, newThresholds, writeOk)
    /\ alerted' = {}
    /\ resetSince' = resetSince \cup notified
    /\ IF changed
       THEN /\ gen' = gen + 1
            /\ inflight' = Append(inflight, NewFetch(gen + 1, newThresholds))
            /\ fetches' = fetches + 1
       ELSE UNCHANGED <<gen, inflight, fetches>>
    /\ toasts' = <<>>
    /\ last' = Step("save", Null, Some(newThresholds), FALSE)
    /\ UNCHANGED <<truncation, searchBox, desktopApp, tauri, phase, timer, metrics, error, sessionUptime,
                   historicalData, samples, notified, renotified, belowSince>>

\* Mutant: the save leaves alertedRef alone.
handleSaveThresholds_KeepsAlerts(newThresholds, changed, writeOk) ==
    /\ phase = "Polling"
    /\ error = Null
    /\ metrics # Null
    /\ saves < MaxSaves
    /\ newThresholds # thresholds => changed
    /\ changed => fetches < MaxFetches
    /\ saves' = saves + 1
    /\ thresholds' = newThresholds
    /\ storage' = saveThresholds(storage, newThresholds, writeOk)
    /\ alerted' = alerted
    /\ resetSince' = resetSince \cup notified
    /\ IF changed
       THEN /\ gen' = gen + 1
            /\ inflight' = Append(inflight, NewFetch(gen + 1, newThresholds))
            /\ fetches' = fetches + 1
       ELSE UNCHANGED <<gen, inflight, fetches>>
    /\ toasts' = <<>>
    /\ last' = Step("save", Null, Some(newThresholds), FALSE)
    /\ UNCHANGED <<truncation, searchBox, desktopApp, tauri, phase, timer, metrics, error, sessionUptime,
                   historicalData, samples, notified, renotified, belowSince>>

\* handleSaveThresholds(newThresholds), and the re-run of the polling effect that
\* the new thresholds state causes (fetchMetrics depends on checkThresholds,
\* which depends on thresholds): cleanup clears the interval, the effect body
\* calls fetchMetrics and registers a new interval.  changed is FALSE when
\* the modal hands back the very object that is the current state (possible
\* only with equal values): React then skips the render and the effect.
\* The modal is part of the main view, rendered only when error is null and
\* metrics is not.
handleSaveThresholds(newThresholds, changed, writeOk) ==
    /\ phase = "Polling"
    /\ error = Null
    /\ metrics # Null
    /\ saves < MaxSaves
    /\ newThresholds # thresholds => changed
    /\ changed => fetches < MaxFetches
    /\ saves' = saves + 1
    /\ thresholds' = newThresholds
    /\ storage' = saveThresholds(storage, newThresholds, writeOk)
    /\ alerted' = {}
    /\ resetSince' = resetSince \cup notified
    /\ IF changed
       THEN /\ gen' = gen + 1
            /\ inflight' = Append(inflight, NewFetch(gen + 1, newThresholds))
            /\ fetches' = fetches + 1
       ELSE UNCHANGED <<gen, inflight, fetches>>
    /\ toasts' = <<>>
    /\ last' = Step("save", Null, Some(newThresholds), FALSE)
    /\ UNCHANGED <<truncation, searchBox, desktopApp, tauri, phase, timer, metrics, error, sessionUptime,
                   historicalData, samples, notified, renotified, belowSince>>

\* Mutant: the cleanup leaves the interval registered.
Unmount_KeepsTimer ==
    /\ Mounted
    /\ phase' = "Unmounted"
    /\ timer' = timer
    /\ toasts' = <<>>
    /\ last' = Step("unmount", Null, Null, FALSE)
    /\ UNCHANGED <<truncation, searchBox, desktopApp, tauri, storage, gen, inflight, fetches, saves, metrics, error,
                   sessionUptime, thresholds, alerted, historicalData, samples,
                   notified, renotified, belowSince, resetSince>>

\* The page is unmounted: the effect's cleanup clears the interval.
Unmount ==
    /\ Mounted
    /\ phase' = "Unmounted"
    /\ timer' = FALSE
    /\ toasts' = <<>>
    /\ last' = Step("unmount", Null, Null, FALSE)
    /\ UNCHANGED <<truncation, searchBox, desktopApp, tauri, storage, gen, inflight, fetches, saves, metrics, error,
                   sessionUptime, thresholds, alerted, historicalData, samples,
                   notified, renotified, belowSince, resetSince>>

\* Mutant: the cleanup toggles the registration instead of clearing it.
CleanupAgain_Toggles ==
    /\ phase = "Unmounted"
    /\ timer' = ~timer
    /\ toasts' = <<>>
    /\ last' = Step("cleanup", Null, Null, FALSE)
    /\ UNCHANGED <<truncation, searchBox, desktopApp, tauri, storage, phase, gen, inflight, fetches, saves, metrics,
                   error, sessionUptime, thresholds, alerted, historicalData,
                   samples, notified, renotified, belowSince, resetSince>>

\* The cleanup closure () => clearInterval(interval) called once more after
\* the unmount: clearInterval on an id that is already cleared.
CleanupAgain ==
    /\ phase = "Unmounted"
    /\ timer' = FALSE
    /\ toasts' = <<>>
    /\ last' = Step("cleanup", Null, Null, FALSE)
    /\ UNCHANGED <<truncation, searchBox, desktopApp, tauri, storage, phase, gen, inflight, fetches, saves, metrics,
                   error, sessionUptime, thresholds, alerted, historicalData,
                   samples, notified, renotified, belowSince, resetSince>>

Next ==
    \/ Mount
    \/ IntervalTick
    \/ Retry
    \/ \E i \in 1..MaxFetches, data \in SnapshotInputs : FetchResolved(i, data)
    \/ \E i \in 1..MaxFetches : FetchRejected(i)
    \/ \E newThresholds \in SaveInputs(thresholds), changed \in BOOLEAN, writeOk \in BOOLEAN :
          handleSaveThresholds(newThresholds, changed, writeOk)
    \/ Unmount

Spec == Init /\ [][Next]_vars

----------------------------------------------------------------------------
(* The page in a long run: histories empty, or at or near capacity *)

PrefillSlack == 1

\* Number of successful ticks already behind the page
PrefillLengths ==
    {0} \cup { n \in 1..HistoryCapacity : n >= HistoryCapacity - PrefillSlack }

\* The j-th snapshot of the run so far: a quiet system, every sample distinct
PrefillSnapshot(j) == Snap(Sys(40 + (j % 10), 50, 0, 0, 4 * j), <<>>)

Prefill(n) == [j \in 1..n |-> PrefillSnapshot(j)]

\* setHistoricalData applied once per snapshot j..n of the run, in order; the
\* comparison makes each update complete before the next one is applied.
RECURSIVE ReplayFrom(_, _, _)
ReplayFrom(h, j, n) ==
    IF j > n THEN h
    ELSE LET next == UpdateHistory(h, PrefillSnapshot(j))
         IN  IF next = next THEN ReplayFrom(next, j + 1, n) ELSE h

ReplayHistory(n) == ReplayFrom(EmptyHistory, 1, n)

\* State after Mount and n ticks, each resolved with its quiet snapshot before
\* the next one started; fetches counts the calls started from here on.
AfterTicks(n) ==
    LET data == PrefillSnapshot(n)
        thr  == DEFAULT_THRESHOLDS
    IN  /\ Elsewhere
        /\ tauri = TRUE
        /\ storage = Absent
        /\ phase = "Polling"
        /\ timer = TRUE
        /\ gen = 1
        /\ inflight = <<>>
        /\ fetches = 0
        /\ saves = 0
        /\ metrics = Some(data)
        /\ error = Null
        /\ sessionUptime = SessionStep * n
        /\ thresholds = thr
        /\ alerted = checkThresholds(data, thr, {}).alerts
        /\ historicalData = ReplayHistory(n)
        /\ toasts = checkThresholds(data, thr, {}).toasts
        /\ last = Step("resolved", Some(data), Some(thr), FALSE)
        /\ samples = Prefill(n)
        /\ notified = {}
        /\ renotified = {}
        /\ belowSince = KeysWhere(Readings(data, thr), Below)
        /\ resetSince = {}

InitHistory ==
    \E n \in PrefillLengths :
        IF n = 0 THEN Init /\ tauri /\ storage = Absent ELSE AfterTicks(n)

\* The long run itself: the settings are left alone.
HistoryNext ==
    \/ Mount
    \/ IntervalTick
    \/ Retry
    \/ \E i \in 1..MaxFetches, data \in SnapshotInputs : FetchResolved(i, data)
    \/ \E i \in 1..MaxFetches : FetchRejected(i)
    \/ Unmount

SpecHistory == InitHistory /\ [][HistoryNext]_vars

\* The same page with a transient outage: a fetch fails only while the loop
\* can still start another one, and every save changes the thresholds and is
\* stored.  The interval timer fires while it is registered and the source
\* answers every pending invoke.
LiveNext ==
    \/ Mount
    \/ IntervalTick
    \/ Retry
    \/ \E i \in 1..MaxFetches, data \in SnapshotInputs : FetchResolved(i, data)
    \/ \E i \in 1..MaxFetches : fetches < MaxFetches /\ FetchRejected(i)
    \/ \E newThresholds \in SaveInputs(thresholds) :
          handleSaveThresholds(newThresholds, TRUE, TRUE)
    \/ Unmount

\* The desktop shell is present and nothing is stored yet.
LiveInit == Init /\ tauri /\ storage = Absent

LiveSpec ==
    /\ LiveInit
    /\ [][LiveNext]_vars
    /\ WF_vars(Mount)
    /\ WF_vars(IntervalTick)
    /\ WF_vars(\E i \in 1..MaxFetches, data \in SnapshotInputs : FetchResolved(i, data))

----------------------------------------------------------------------------
(* End-to-end scenarios: a fixed stream of cpu values, one per tick *)

ScenarioStreams == { <<50, 92, 93, 60>>, <<95, 80, 95>> }

IsPrefix(s, t) == Len(s) <= Len(t) /\ s = SubSeq(t, 1, Len(s))

\* cpu values delivered so far
CpuDelivered(ss) == [j \in 1..Len(ss) |-> ss[j].system.cpu_usage]

\* Snapshots with the given cpu value; the other metrics vary freely
ScenarioSnapshots(cpu) ==
    { Snap(Sys(cpu, mem, 0, 0, 0), gpus) :
        mem \in {50, 90}, gpus \in { <<>>, <<Gpu(0, 95, 95, Some(90))>> } }

\* Snapshots that continue one of the streams
NextScenarioSnapshots ==
    UNION { ScenarioSnapshots(st[Len(samples) + 1]) :
              st \in { t \in ScenarioStreams :
                         /\ Len(samples) < Len(t)
                         /\ IsPrefix(CpuDelivered(samples), t) } }

\* The interval callback with nothing pending, and its fetchMetrics run to the
\* end with a resolved invoke: one successful tick.
SuccessfulTick(data) ==
    /\ tauri
    /\ timer
    /\ phase = "Polling"
    /\ inflight = <<>>
    /\ LET rs  == Readings(data, thresholds)
           out == checkThresholds(data, thresholds, alerted)
           tk  == ToastKeys(out.toasts)
       IN  /\ metrics' = Some(data)
           /\ error' = Null
           /\ sessionUptime' = sessionUptime + SessionStep
           /\ historicalData' = UpdateHistory(historicalData, data)
           /\ samples' = Append(samples, data)
           /\ alerted' = out.alerts
           /\ toasts' = out.toasts
           /\ last' = Step("resolved", Some(data), Some(thresholds), FALSE)
           /\ notified' = notified \cup tk
           /\ renotified' = renotified \cup (notified \cap tk)
           /\ belowSince' = (belowSince \cup KeysWhere(rs, Below)) \ tk
           /\ resetSince' = (resetSince \cup KeysWhere(rs, Missing)) \ tk
    /\ fetches' = fetches + 1
    /\ UNCHANGED <<truncation, searchBox, desktopApp, tauri, storage, phase, timer, gen, inflight, saves, thresholds>>

ScenarioInit == Init /\ tauri /\ storage = Absent

\* Mount, the first fetch, then one successful tick after the other.
ScenarioNext ==
    \/ Mount
    \/ \E data \in NextScenarioSnapshots : FetchResolved(1, data)
    \/ \E data \in NextScenarioSnapshots : SuccessfulTick(data)

SpecScenario == ScenarioInit /\ [][ScenarioNext]_vars

----------------------------------------------------------------------------
(* ThresholdStore: the page constructed over any stored entry *)

InitStore ==
    /\ Elsewhere
    /\ tauri = TRUE
    /\ storage \in StoreRecords
    /\ phase = "Idle"
    /\ timer = FALSE
    /\ gen = 0
    /\ inflight = <<>>
    /\ fetches = 0
    /\ saves = 0
    /\ metrics = Null
    /\ error = Null
    /\ sessionUptime = 0
    /\ thresholds = loadThresholds(storage)
    /\ alerted = {}
    /\ historicalData = EmptyHistory
    /\ toasts = <<>>
    /\ last = [op |-> "init", data |-> Null, thr |-> Null, stale |-> FALSE]
    /\ samples = <<>>
    /\ notified = {}
    /\ renotified = {}
    /\ belowSince = {}
    /\ resetSince = {}

\* A snapshot with everything hot
StoreSnapshot ==
    Snap(Sys(95, 90, 80, 100, 10), <<Gpu(0, 95, 95, Some(90))>>)

\* Load, first fetch, saves from the settings modal, unmount.
StoreNext ==
    \/ Mount
    \/ \E i \in 1..MaxFetches : FetchResolved(i, StoreSnapshot)
    \/ \E newThresholds \in SaveInputs(thresholds), changed \in BOOLEAN, writeOk \in BOOLEAN :
          handleSaveThresholds(newThresholds, changed, writeOk)
    \/ Unmount

SpecStore == InitStore /\ [][StoreNext]_vars

----------------------------------------------------------------------------
(* Start and stop of the polling effect *)

\* Nothing is stored; the desktop shell may or may not be present.
StopInit == Init /\ storage = Absent

\* Every save changes the thresholds and is stored; the cleanup may be called
\* again after the unmount.
StopNext ==
    \/ Mount
    \/ IntervalTick
    \/ Retry
    \/ \E i \in 1..MaxFetches, data \in SnapshotInputs : FetchResolved(i, data)
    \/ \E i \in 1..MaxFetches : FetchRejected(i)
    \/ \E newThresholds \in SaveInputs(thresholds) :
          handleSaveThresholds(newThresholds, TRUE, TRUE)
    \/ Unmount
    \/ CleanupAgain

SpecStop == StopInit /\ [][StopNext]_vars

----------------------------------------------------------------------------
(* Saves on the running page *)

\* State after Mount and a first tick resolved with data.
AfterFirstTick(data) ==
    LET thr == DEFAULT_THRESHOLDS
        rs  == Readings(data, thr)
        out == checkThresholds(data, thr, {})
        tk  == ToastKeys(out.toasts)
    IN  /\ Elsewhere
        /\ tauri = TRUE
        /\ storage = Absent
        /\ phase = "Polling"
        /\ timer = TRUE
        /\ gen = 1
        /\ inflight = <<>>
        /\ fetches = 0
        /\ saves = 0
        /\ metrics = Some(data)
        /\ error = Null
        /\ sessionUptime = SessionStep
        /\ thresholds = thr
        /\ alerted = out.alerts
        /\ historicalData = UpdateHistory(EmptyHistory, data)
        /\ toasts = out.toasts
        /\ last = Step("resolved", Some(data), Some(thr), FALSE)
        /\ samples = <<data>>
        /\ notified = tk
        /\ renotified = {}
        /\ belowSince = KeysWhere(rs, Below) \ tk
        /\ resetSince = KeysWhere(rs, Missing) \ tk

\* The page polls and its first tick has succeeded: the settings can be opened.
SaveInit == \E data \in SnapshotInputs \cup {PrefillSnapshot(1)} : AfterFirstTick(data)

SaveNext ==
    \/ IntervalTick
    \/ \E i \in 1..MaxFetches, data \in SnapshotInputs : FetchResolved(i, data)
    \/ \E i \in 1..MaxFetches : FetchRejected(i)
    \/ \E newThresholds \in SaveInputs(thresholds), writeOk \in BOOLEAN :
          handleSaveThresholds(newThresholds, TRUE, writeOk)
    \/ Unmount

SpecSave == SaveInit /\ [][SaveNext]_vars

----------------------------------------------------------------------------
(* fileUtils under call: filenames and widths *)

MaxNameLen == 16

MaxExtLen == 12

MaxWidth == 12

pageVars == <<tauri, storage, phase, timer, gen, inflight, fetches, saves, metrics,
              error, sessionUptime, thresholds, alerted, historicalData, toasts,
              last, samples, notified, renotified, belowSince, resetSince>>

\* The page as constructed in the shell, nothing stored
PageIdle == PageInit /\ tauri /\ storage = Absent

Letters(n) == [j \in 1..n |-> "a"]

\* "" (no dot), "." (trailing dot), ".a", ".aa", ...
DotSuffix(e) == IF e = 0 THEN <<>> ELSE <<".">> \o Letters(e - 1)

\* Names of up to MaxNameLen characters, possibly with a space or a dot
\* inside, followed by nothing, a trailing dot or an extension; a name of
\* length 0 with a suffix is a dotfile.
FileNameInputs ==
    UNION { { (IF p = 0 THEN Letters(n) ELSE [Letters(n) EXCEPT ![p] = c]) \o DotSuffix(e) :
                p \in 0..n, c \in {" ", "."}, e \in 0..MaxExtLen } :
            n \in 0..MaxNameLen }

\* maxLength / charsPerLine arguments
WidthInputs == 0..MaxWidth \cup {DefaultCharsPerLine, DefaultMaxLength}

TruncateInit ==
    /\ PageIdle
    /\ searchBox = SearchBoxInit
    /\ desktopApp = DesktopAppInit
    /\ truncation \in [fn : {"none"}, filename : FileNameInputs, arg : WidthInputs,
                        result : {Null}]

CallTruncateMiddle ==
    /\ truncation.fn = "none"
    /\ truncation' = [truncation EXCEPT
                         !.fn = "truncateMiddle",
                         !.result = Some(truncateMiddle(truncation.filename, truncation.arg))]
    /\ UNCHANGED <<pageVars, searchBox, desktopApp>>

CallFormatFilenameForGrid ==
    /\ truncation.fn = "none"
    /\ truncation' = [truncation EXCEPT
                         !.fn = "formatFilenameForGrid",
                         !.result = Some(formatFilenameForGrid(truncation.filename,
                                                               truncation.arg))]
    /\ UNCHANGED <<pageVars, searchBox, desktopApp>>

TruncateNext ==
    \/ CallTruncateMiddle
    \/ CallFormatFilenameForGrid

SpecTruncate == TruncateInit /\ [][TruncateNext]_vars

----------------------------------------------------------------------------
(* SearchBox: handlers.  A step is a handler, the render it causes and the
   effect that resets the selection when suggestions.length has changed. *)

\* The dropdown is rendered: isFocused && suggestions.length > 0
Shown(sb) == sb.isFocused /\ Len(sb.suggestions) > 0

\* The render recomputes the suggestions useMemo, then
\* useEffect(() => { setSelectedIndex(0) }, [suggestions.length])
RenderedWith(next, all) ==
    [next EXCEPT !.suggestions = all,
                 !.selectedIndex = IF Len(all) # Len(searchBox.suggestions)
                                   THEN 0 ELSE @]

Rendered(next) == RenderedWith(next, suggestions(next))

SearchStep(next) ==
    /\ searchBox' = Rendered(next)
    /\ UNCHANGED <<pageVars, truncation, desktopApp>>

\* onChange(newValue); setSelectedIndex(0); inputRef.current?.focus()
applySuggestion(sb, suggestion) ==
    [sb EXCEPT !.value = getCurrentContext(sb.value).prefix \o suggestion.value
                           \o (IF suggestion.type = "operator" THEN <<>> ELSE <<" ">>),
               !.selectedIndex = 0,
               !.isFocused = TRUE]

onFocus ==
    /\ ~searchBox.isFocused
    /\ SearchStep([searchBox EXCEPT !.isFocused = TRUE, !.event = "focus"])

\* The input's onChange: the parent stores the text and passes it back
onChange(text) ==
    /\ text # searchBox.value
    /\ SearchStep([searchBox EXCEPT !.value = text, !.event = "change"])

\* Mutant: ArrowDown does not stop at the last suggestion.
handleKeyDown_NoClamp(key) ==
    LET all  == searchBox.suggestions
        i    == searchBox.selectedIndex
        next ==
          IF Len(all) = 0 THEN searchBox
          ELSE CASE key = "ArrowDown" ->
                      [searchBox EXCEPT !.selectedIndex = i + 1]
                 [] key = "ArrowUp" ->
                      [searchBox EXCEPT !.selectedIndex = IF i - 1 > 0 THEN i - 1 ELSE 0]
                 [] key \in {"Tab", "Enter"} ->
                      IF i + 1 \in 1..Len(all)
                      THEN applySuggestion(searchBox, all[i + 1]) ELSE searchBox
                 [] key = "Escape" ->
                      [searchBox EXCEPT !.isFocused = FALSE]
    IN  SearchStep([next EXCEPT !.event = key])

handleKeyDown(key) ==
    LET all  == searchBox.suggestions
        i    == searchBox.selectedIndex
        next ==
          IF Len(all) = 0 THEN searchBox
          ELSE CASE key = "ArrowDown" ->
                      [searchBox EXCEPT !.selectedIndex = Min(i + 1, Len(all) - 1)]
                 [] key = "ArrowUp" ->
                      [searchBox EXCEPT !.selectedIndex = IF i - 1 > 0 THEN i - 1 ELSE 0]
                 [] key \in {"Tab", "Enter"} ->
                      IF i + 1 \in 1..Len(all)
                      THEN applySuggestion(searchBox, all[i + 1]) ELSE searchBox
                 [] key = "Escape" ->
                      [searchBox EXCEPT !.isFocused = FALSE]
    IN  SearchStep([next EXCEPT !.event = key])

\* onMouseEnter of the i-th suggestion button
onMouseEnter(i) ==
    /\ Shown(searchBox)
    /\ i \in 0..(Len(searchBox.suggestions) - 1)
    /\ SearchStep([searchBox EXCEPT !.selectedIndex = i, !.event = "hover"])

\* onClick of the i-th suggestion button
onClick(i) ==
    /\ Shown(searchBox)
    /\ i \in 0..(Len(searchBox.suggestions) - 1)
    /\ SearchStep([applySuggestion(searchBox, searchBox.suggestions[i + 1])
                     EXCEPT !.event = "click"])

\* mousedown outside the input and the dropdown; without a rendered dropdown
\* dropdownRef.current is null and the handler does nothing
handleClickOutside ==
    /\ Shown(searchBox)
    /\ SearchStep([searchBox EXCEPT !.isFocused = FALSE, !.event = "outside"])

\* The clear button: onChange('')
onClear ==
    /\ searchBox.value # <<>>
    /\ SearchStep([searchBox EXCEPT !.value = <<>>, !.event = "clear"])

\* The parent passes another files prop
filesChanged(files) ==
    /\ files # searchBox.files
    /\ SearchStep([searchBox EXCEPT !.files = files, !.event = "files"])

SearchInit ==
    /\ PageIdle
    /\ truncation = NoCall
    /\ desktopApp = DesktopAppInit
    /\ \E files \in FilesInputs : searchBox = [SearchBoxInit EXCEPT !.files = files]

SearchNext ==
    \/ onFocus
    \/ \E text \in QueryInputs : onChange(text)
    \/ \E key \in {"ArrowDown", "ArrowUp", "Tab", "Enter", "Escape"} : handleKeyDown(key)
    \/ \E i \in 0..(Len(searchBox.suggestions) - 1) : onMouseEnter(i)
    \/ \E i \in 0..(Len(searchBox.suggestions) - 1) : onClick(i)
    \/ handleClickOutside
    \/ onClear
    \/ \E files \in FilesInputs : filesChanged(files)

SpecSearch == SearchInit /\ [][SearchNext]_vars

----------------------------------------------------------------------------
(* Desktop App: initial fetch, gpu-metrics listener and 2-second poll *)

MaxPolls == 2

MaxEvents == 2

DesktopHistoryKeep == 119

DesktopHistoryCapacity == DesktopHistoryKeep + 1

\* A GPU entry whose history already holds n samples 1..n
GpuEntry(id, n) ==
    [info |-> [id |-> id], current |-> n, history |-> [j \in 1..n |-> j]]

AllMetrics(gpus, system, processes) ==
    [gpus |-> gpus, system |-> system, model_processes |-> processes]

\* Results of invoke('get_all_metrics'): no GPU; two GPUs just detected; two
\* GPUs whose histories are one short of the capacity and at the capacity
AllMetricsInputs ==
    { AllMetrics(<<>>, 1, 0),
      AllMetrics(<<GpuEntry(0, 0), GpuEntry(1, 0)>>, 2, 1),
      AllMetrics(<<GpuEntry(0, DesktopHistoryKeep), GpuEntry(1, DesktopHistoryCapacity)>>,
                 3, 2) }

\* gpu-metrics payloads: a listed GPU or an unknown one, with a fresh sample
GpuIdInputs == {0, 1, 7}

GpuSampleInputs == {201, 202}

AppStep(next) ==
    /\ desktopApp' = next
    /\ UNCHANGED <<pageVars, truncation, searchBox>>

\* fetchInitialData: setMetrics(allMetrics); setIsLoading(false)
initialResolved(allMetrics) ==
    /\ desktopApp.initial = "pending"
    /\ AppStep([desktopApp EXCEPT
                   !.metrics = Some(allMetrics),
                   !.isLoading = FALSE,
                   !.initial = "done",
                   !.event = [NoEvent EXCEPT !.op = "initialResolved",
                                             !.data = Some(allMetrics)]])

\* fetchInitialData, catch: setError(String(err)); setIsLoading(false)
initialRejected ==
    /\ desktopApp.initial = "pending"
    /\ AppStep([desktopApp EXCEPT
                   !.error = Some("error"),
                   !.isLoading = FALSE,
                   !.initial = "failed",
                   !.event = [NoEvent EXCEPT !.op = "initialRejected"]])

\* The interval fires: invoke('get_all_metrics') is pending
pollTick ==
    /\ desktopApp.polls < MaxPolls
    /\ AppStep([desktopApp EXCEPT
                   !.polls = @ + 1,
                   !.pending = @ + 1,
                   !.event = [NoEvent EXCEPT !.op = "pollTick"]])

\* Mutant: the poll result replaces the gpus list too.
pollResolved_TakesPolledGpus(allMetrics) ==
    /\ desktopApp.pending > 0
    /\ AppStep([desktopApp EXCEPT
                   !.metrics = Some(allMetrics),
                   !.pending = @ - 1,
                   !.event = [NoEvent EXCEPT !.op = "pollResolved",
                                             !.data = Some(allMetrics)]])

\* setMetrics(prev => ({ ...allMetrics, gpus: prev?.gpus || allMetrics.gpus }))
pollResolved(allMetrics) ==
    /\ desktopApp.pending > 0
    /\ AppStep([desktopApp EXCEPT
                   !.metrics =
                       Some([allMetrics EXCEPT
                               !.gpus = IF desktopApp.metrics # Null
                                        THEN desktopApp.metrics[1].gpus
                                        ELSE allMetrics.gpus]),
                   !.pending = @ - 1,
                   !.event = [NoEvent EXCEPT !.op = "pollResolved",
                                             !.data = Some(allMetrics)]])

\* The poll's catch: console.error only
pollRejected ==
    /\ desktopApp.pending > 0
    /\ AppStep([desktopApp EXCEPT
                   !.pending = @ - 1,
                   !.event = [NoEvent EXCEPT !.op = "pollRejected"]])

\* Mutant: the event's sample is written to every GPU.
gpuMetricsEvent_UpdatesEveryGpu(gpu_id, sample) ==
    /\ desktopApp.events < MaxEvents
    /\ AppStep([desktopApp EXCEPT
                   !.metrics =
                       IF desktopApp.metrics = Null THEN Null
                       ELSE LET prev == desktopApp.metrics[1]
                            IN  Some([prev EXCEPT
                                   !.gpus = [i \in 1..Len(prev.gpus) |->
                                       [prev.gpus[i] EXCEPT
                                           !.current = sample,
                                           !.history =
                                               Append(SliceLast(prev.gpus[i].history,
                                                                DesktopHistoryKeep),
                                                      sample)]]]),
                   !.events = @ + 1,
                   !.event = [NoEvent EXCEPT !.op = "gpuEvent", !.gpu_id = gpu_id,
                                             !.metrics = sample]])

\* The gpu-metrics listener
gpuMetricsEvent(gpu_id, sample) ==
    /\ desktopApp.events < MaxEvents
    /\ AppStep([desktopApp EXCEPT
                   !.metrics =
                       IF desktopApp.metrics = Null THEN Null
                       ELSE LET prev == desktopApp.metrics[1]
                            IN  Some([prev EXCEPT
                                   !.gpus = [i \in 1..Len(prev.gpus) |->
                                       IF prev.gpus[i].info.id = gpu_id
                                       THEN [prev.gpus[i] EXCEPT
                                               !.current = sample,
                                               !.history =
                                                   Append(SliceLast(prev.gpus[i].history,
                                                                    DesktopHistoryKeep),
                                                          sample)]
                                       ELSE prev.gpus[i]]]),
                   !.events = @ + 1,
                   !.event = [NoEvent EXCEPT !.op = "gpuEvent", !.gpu_id = gpu_id,
                                             !.metrics = sample]])

AppInit ==
    /\ PageIdle
    /\ truncation = NoCall
    /\ searchBox = SearchBoxInit
    /\ desktopApp = DesktopAppInit

AppNext ==
    \/ \E allMetrics \in AllMetricsInputs : initialResolved(allMetrics)
    \/ initialRejected
    \/ pollTick
    \/ \E allMetrics \in AllMetricsInputs : pollResolved(allMetrics)
    \/ pollRejected
    \/ \E gpu_id \in GpuIdInputs, sample \in GpuSampleInputs : gpuMetricsEvent(gpu_id, sample)

SpecApp == AppInit /\ [][AppNext]_vars

----------------------------------------------------------------------------
(* Properties *)

NoDuplicates(ts) == Cardinality(ToastKeys(ts)) = Len(ts)

\* C1 as stated: between any two notifications for the same key there is an
\* evaluation at which that key's value was below 0.9 x its threshold.
C1_BelowBetweenNotifications ==
    [][\A k \in ToastKeys(toasts') : k \in notified => k \in belowSince]_vars

\* C1 (amended): between any two notifications for the same key there is an
\* evaluation that saw the key's value below 0.9 x its threshold, or saw its
\* temperature reading missing, or there is a threshold save; and every
\* notification is emitted by the evaluation that adds its key to the active
\* set, once per key.
C1_OneNotificationPerActivation ==
    [][/\ \A k \in ToastKeys(toasts') :
             /\ k \notin alerted /\ k \in alerted'
             /\ k \in notified => k \in belowSince \cup resetSince
       /\ NoDuplicates(toasts')]_vars

\* A key has been notified a second time.
C1_Witness ==
    /\ last.op = "resolved"
    /\ ToastKeys(toasts) \cap renotified # {}

Range(s) == { s[j] : j \in 1..Len(s) }

\* The readings compared by the evaluation the latest step ran
LastReadings == Readings(last.data[1], last.thr[1])

Evaluated == last.op = "resolved"

\* r carries a value v with 0.9 t <= v < t
InBand(r) == r.has /\ 10 * r.v >= 9 * r.t /\ r.v < r.t

C3_StaleResultDiscarded ==
    [][last'.stale =>
         /\ historicalData' = historicalData
         /\ alerted' = alerted
         /\ toasts' = <<>>
         /\ metrics' = metrics
         /\ error' = error]_vars

\* C4: at most one fetch is in flight at any moment.
C4_NoOverlappingTicks == Len(inflight) <= 1

\* C6: a fetch that fails publishes an error message (while the page is
\* mounted) and changes neither any history series nor the active set, nor the
\* published snapshot; it shows no toast.
C6_FailedTickLeavesState ==
    [][last'.op = "rejected" =>
         /\ historicalData' = historicalData
         /\ alerted' = alerted
         /\ metrics' = metrics
         /\ toasts' = <<>>
         /\ phase # "Unmounted" => error' # Null]_vars

\* A fetch has just failed with samples in the histories and alerts active.
C6_Witness ==
    /\ last.op = "rejected"
    /\ phase = "Polling"
    /\ error # Null
    /\ alerted # {}
    /\ Len(historicalData.cpu) > 0

\* C8: an evaluation of a snapshot with swap_total_mb = 0 neither adds 'swap'
\* to the active set nor shows a swap toast, whatever the swap threshold.
C8_SwapZeroNeverAlerts ==
    (Evaluated /\ last.data[1].system.swap_total_mb = 0)
        => ("swap" \notin alerted /\ "swap" \notin ToastKeys(toasts))

\* Keys temp-<i> of the positions whose temperature reading is null
MissingTempKeys(data) ==
    { GpuKey("temp", p - 1) :
        p \in { q \in 1..Len(data.gpus) :
                  data.gpus[q].current.temperature_celsius = Null } }

\* C9 as stated: an evaluation with the temperature reading missing leaves the
\* key temp-<i> as it was and emits no event for it.
C9_MissingLeavesKey ==
    [][Evaluated' =>
         \A k \in MissingTempKeys(last'.data[1]) :
            /\ k \in alerted' <=> k \in alerted
            /\ k \notin ToastKeys(toasts')]_vars

\* C9 (amended): an evaluation with the temperature reading missing never
\* triggers the alert and emits no event; it removes the key temp-<i> from
\* the active set when present (absent stays absent).
C9_MissingClearsKey ==
    [][Evaluated' =>
         \A k \in MissingTempKeys(last'.data[1]) :
            /\ k \notin alerted'
            /\ k \notin ToastKeys(toasts')]_vars

\* A temperature alert was raised for position 0 and the next evaluation saw
\* the reading at position 0 missing.
C9_Witness ==
    /\ Evaluated
    /\ saves = 0
    /\ "temp-0" \in MissingTempKeys(last.data[1])
    /\ "temp-0" \in notified
    /\ "temp-0" \in resetSince
    /\ "temp-0" \notin alerted

\* C10: alerts are keyed by the device's identifier: every GPU toast carries
\* the key of a device of the snapshot that is at or above the threshold, and
\* the key of a device below 0.9 x threshold is not in the active set.
C10_KeyedByDeviceId ==
    Evaluated =>
        LET data == last.data[1]
            thr  == last.thr[1]
            devs == Range(data.gpus)
        IN  /\ \A g \in devs :
                  10 * g.current.gpu_utilization < 9 * thr.gpu
                      => GpuKey("gpu", g.info.id) \notin alerted
            /\ \A k \in ToastKeys(toasts) :
                  \/ k \in {"cpu", "memory", "swap"}
                  \/ \E g \in devs :
                        \/ k = GpuKey("gpu", g.info.id)
                             /\ g.current.gpu_utilization >= thr.gpu
                        \/ k = GpuKey("gpuMem", g.info.id)
                             /\ g.current.memory_utilization >= thr.gpuMemory
                        \/ k = GpuKey("temp", g.info.id)
                             /\ Truthy(g.current.temperature_celsius)
                             /\ g.current.temperature_celsius[1] >= thr.temperature

\* C7: a failed fetch never stops polling (the timer stays registered while
\* the page polls), the error stays set until a fetch succeeds, a fetch that
\* succeeds on the mounted page clears the error and publishes its snapshot,
\* and when the source eventually succeeds the error is eventually cleared.
C7_SelfHealing ==
    /\ [][last'.op = "rejected" => (timer' = timer /\ phase' = phase)]_vars
    /\ [](phase = "Polling" => timer)
    /\ [][(error # Null /\ error' = Null)
             => (last'.op = "resolved" /\ metrics' = last'.data)]_vars
    /\ [][(last'.op = "resolved" /\ phase # "Unmounted")
             => (error' = Null /\ metrics' = last'.data)]_vars
    /\ (phase = "Polling" /\ error # Null) ~> (error = Null \/ phase = "Unmounted")

\* A fetch failed, the loop kept polling, and a later fetch has just succeeded
\* and cleared the error.
C7_Witness ==
    /\ Evaluated
    /\ phase = "Polling"
    /\ timer
    /\ error = Null
    /\ fetches > Len(samples) + Len(inflight)

Series ==
    {"cpu", "memory", "swap", "gpu", "gpuMem", "gpuTemp", "diskRead", "diskWrite",
     "netRx", "netTx"}

\* The value a snapshot contributes to a history series
SeriesValue(name, data) ==
    CASE name = "cpu" -> data.system.cpu_usage
      [] name = "memory" -> data.system.memory_usage_percent
      [] name = "swap" -> swapPercent(data.system)
      [] name = "gpu" -> FirstGpu(data, "gpu_utilization")
      [] name = "gpuMem" -> FirstGpu(data, "memory_utilization")
      [] name = "gpuTemp" -> FirstGpuTemp(data)
      [] name = "diskRead" -> data.system.disk_read_bytes_sec
      [] name = "diskWrite" -> data.system.disk_write_bytes_sec
      [] name = "netRx" -> data.system.network_rx_bytes_sec
      [] name = "netTx" -> data.system.network_tx_bytes_sec

\* The most recent min(k, capacity) values of a series, oldest first
RecentValues(name) ==
    LET k == Len(samples)
        m == Min(k, HistoryCapacity)
    IN  [j \in 1..m |-> SeriesValue(name, samples[k - m + j])]

\* C5: after k successful ticks every history series has length min(k, 60)
\* and holds the most recent min(k, 60) sampled values in chronological
\* order; no series is ever longer than 60.
C5_RollingHistory ==
    \A name \in Series :
        /\ Len(historicalData[name]) = Min(Len(samples), HistoryCapacity)
        /\ Len(historicalData[name]) <= HistoryCapacity
        /\ historicalData[name] = RecentValues(name)

\* More than 60 ticks have succeeded and the oldest samples are gone.
C5_Witness ==
    /\ Len(samples) > HistoryCapacity
    /\ Len(historicalData.diskRead) = HistoryCapacity
    /\ historicalData.diskRead[1] # SeriesValue("diskRead", samples[1])
    /\ historicalData.diskRead[HistoryCapacity]
           = SeriesValue("diskRead", samples[Len(samples)])

\* C11 as stated: a key is in the active set exactly when some evaluation
\* found it at or above its threshold and no later evaluation found it below
\* 0.9 x threshold, and only an evaluation changes the set.
C11_ActiveSetOnlyByEvaluation ==
    /\ [](alerted = notified \ belowSince)
    /\ [][alerted' # alerted => last'.op = "resolved"]_vars

\* C11 (amended): a key is in the active set exactly when some evaluation
\* found it at or above its threshold and since then no evaluation found it
\* below 0.9 x threshold or missing and no thresholds were saved; the set is
\* changed only by an evaluation or by a save, never by a failed fetch, a
\* tick, a retry or the unmount.
C11_ActiveSetByEvaluationOrSave ==
    /\ [](alerted = notified \ (belowSince \cup resetSince))
    /\ [][alerted' # alerted => last'.op \in {"resolved", "save"}]_vars

\* A save has just emptied the active set while a key found at or above its
\* threshold had not been evaluated below 0.9 x threshold since.
C11_Witness ==
    /\ last.op = "save"
    /\ alerted = {}
    /\ (notified \ belowSince) \cap resetSince # {}

\* Number of toasts of a step that carry the key k
ToastCount(ts, k) == Cardinality({ j \in 1..Len(ts) : ts[j].key = k })

\* C12: with cpu threshold 90, the ticks 50, 92, 93, 60 emit exactly one cpu
\* event, at the 92 sample, leave the cpu history [50, 92, 93, 60] and 'cpu'
\* out of the active set; the ticks 95, 80, 95 emit exactly two cpu events,
\* at the first and the third sample, with a silent clear at the 80 sample.
C12_EndToEndScenario ==
    /\ [][Len(samples') > Len(samples) =>
            LET cpus == CpuDelivered(samples')
                k    == Len(cpus)
                due  == \/ (cpus[1] = 50 /\ k = 2)
                        \/ (cpus[1] = 95 /\ k \in {1, 3})
            IN  ToastCount(toasts', "cpu") = (IF due THEN 1 ELSE 0)]_vars
    /\ [](CpuDelivered(samples) = <<50, 92, 93, 60>> =>
            /\ historicalData.cpu = <<50, 92, 93, 60>>
            /\ "cpu" \notin alerted)
    /\ [](CpuDelivered(samples) = <<95, 80>> =>
            /\ "cpu" \notin alerted
            /\ "cpu" \notin ToastKeys(toasts))
    /\ [](CpuDelivered(samples) = <<95, 80, 95>> =>
            /\ historicalData.cpu = <<95, 80, 95>>
            /\ "cpu" \in alerted
            /\ "cpu" \in renotified)

\* The four ticks 50, 92, 93, 60 have been delivered and the cpu alert that
\* fired in between has cleared.
C12_Witness ==
    /\ CpuDelivered(samples) = <<50, 92, 93, 60>>
    /\ thresholds.cpu = 90
    /\ "cpu" \in notified
    /\ "cpu" \notin renotified
    /\ "cpu" \in belowSince

\* The configuration in memory is the one loadThresholds returned
Loaded == saves = 0

\* C13: for a stored record holding a subset of the eight keys, the loaded
\* configuration has the stored value for every key of the record and the
\* compiled-in default for every other key.
C13_MergeOnLoad ==
    (Loaded /\ storage.kind = "json" /\ DOMAIN storage.rec \subseteq ThresholdKeys)
        => /\ DOMAIN thresholds = ThresholdKeys
           /\ \A k \in ThresholdKeys :
                 thresholds[k] = IF k \in DOMAIN storage.rec
                                 THEN storage.rec[k]
                                 ELSE DEFAULT_THRESHOLDS[k]

\* The page polls with a configuration loaded from a record that lacks
\* gpuMemory and holds other keys.
C13_Witness ==
    /\ Loaded
    /\ phase = "Polling"
    /\ storage.kind = "json"
    /\ DOMAIN storage.rec = ThresholdKeys \ {"gpuMemory"}
    /\ thresholds.gpuMemory = DEFAULT_THRESHOLDS.gpuMemory
    /\ thresholds.cpu = PersistedValue.cpu

\* C14: when the stored entry is absent, unreadable or not parseable, the
\* loaded configuration is exactly the default one.
C14_DefaultsOnReadFailure ==
    (Loaded /\ storage.kind \in {"absent", "unreadable", "corrupt"})
        => thresholds = DEFAULT_THRESHOLDS

\* The page has evaluated a snapshot with the defaults it fell back to on a
\* corrupt entry.
C14_Witness ==
    /\ Loaded
    /\ storage.kind = "corrupt"
    /\ Evaluated
    /\ last.thr = Some(DEFAULT_THRESHOLDS)

\* C15: every threshold read by an alert evaluation lies inside the declared
\* range of its key.
C15_ThresholdsInRange ==
    Evaluated =>
        \A k \in ThresholdKeys : last.thr[1][k] \in ThresholdRange[k]

\* C16: the configuration returned by loadThresholds holds exactly the eight
\* known keys, whatever other keys the stored record has.
C16_UnknownKeysIgnored ==
    Loaded => DOMAIN thresholds = ThresholdKeys

\* C17: a save whose write to storage fails still completes (the alert set is
\* reset, no error is raised, the page keeps polling) and the configuration
\* in memory is the newly saved one; a write that succeeds stores it.
C17_SaveIsBestEffort ==
    [][last'.op = "save" =>
         /\ thresholds' = last'.thr[1]
         /\ alerted' = {}
         /\ error' = Null
         /\ phase' = "Polling"
         /\ storage' \in {storage, Json(thresholds')}]_vars

\* A save has just changed the configuration in memory while its write failed:
\* storage still holds what it held before.
C17_Witness ==
    /\ last.op = "save"
    /\ thresholds = last.thr[1]
    /\ storage # Json(thresholds)
    /\ thresholds # loadThresholds(storage)

\* C18: after the cleanup has cancelled the interval timer, the timer starts
\* no further fetch: no tick fires and no fetch is started after the unmount.
C18_NoTickAfterStop ==
    /\ [](phase = "Unmounted" => ~timer)
    /\ [][phase = "Unmounted" =>
            /\ last'.op # "tick"
            /\ fetches' = fetches
            /\ Len(inflight') <= Len(inflight)]_vars

\* The page was unmounted while the run could still start fetches, and a step
\* has been taken since.
C18_Witness ==
    /\ phase = "Unmounted"
    /\ fetches < MaxFetches
    /\ fetches > 0
    /\ last.op \in {"resolved", "rejected"}

\* The variables of the page itself, without the history variables
PageState ==
    <<tauri, storage, phase, timer, gen, inflight, fetches, saves, metrics, error,
      sessionUptime, thresholds, alerted, historicalData>>

\* C19: calling the cleanup a second time leaves the page as the first call
\* left it: timer cancelled, no polling, no error raised, no transition.
C19_StopIdempotent ==
    /\ [][last'.op = "cleanup" => (PageState' = PageState /\ ~timer')]_vars
    /\ [][phase = "Unmounted" => phase' = "Unmounted"]_vars

\* The cleanup has just been called again on the unmounted page.
C19_Witness ==
    /\ last.op = "cleanup"
    /\ phase = "Unmounted"
    /\ ~timer
    /\ fetches > 0

C21_AtomicThresholds ==
    /\ [][Len(inflight') > Len(inflight) =>
            inflight'[Len(inflight')].thr = thresholds']_vars
    /\ [][last'.op = "resolved" =>
            \E i \in 1..Len(inflight) :
               /\ inflight' = RemoveAt(inflight, i)
               /\ last'.thr = Some(inflight[i].thr)
               /\ alerted' = checkThresholds(last'.data[1], inflight[i].thr, alerted).alerts
               /\ toasts' = checkThresholds(last'.data[1], inflight[i].thr, alerted).toasts]_vars

\* A fetch started before a save has just been evaluated on the polling page
\* after it: the state holds another configuration than the one it used.
C21_Witness ==
    /\ last.op = "resolved"
    /\ phase = "Polling"
    /\ saves > 0
    /\ last.thr # Some(thresholds)

\* Keys temp-<i> of the positions of a snapshot's device list
TempKeys(data) == { GpuKey("temp", p - 1) : p \in 1..Len(data.gpus) }

\* C22: every toast for a temperature key has type 'error' and every other
\* toast has type 'warning'; the toasts of a step are exactly the keys that
\* the step adds to the active set, one toast per key.
C22_SeverityAndEmission ==
    [][/\ ToastKeys(toasts') = alerted' \ alerted
       /\ NoDuplicates(toasts')
       /\ \A j \in 1..Len(toasts') :
             toasts'[j].type = IF toasts'[j].key \in TempKeys(last'.data[1])
                               THEN "error" ELSE "warning"]_vars

\* One evaluation has just raised a temperature alert and a cpu alert.
C22_Witness ==
    /\ Evaluated
    /\ \E j \in 1..Len(toasts) : toasts[j].key = "temp-0" /\ toasts[j].type = "error"
    /\ \E j \in 1..Len(toasts) : toasts[j].key = "cpu" /\ toasts[j].type = "warning"
    /\ {"temp-0", "cpu"} \subseteq alerted

C26_SaveRenotifies ==
    [][(last.op = "save" /\ last'.op = "resolved") =>
          \A r \in Range(Readings(last'.data[1], thresholds)) :
             (r.key \in notified /\ AtOrAbove(r)) => r.key \in ToastKeys(toasts')]_vars

\* C27: after a save, every evaluation uses the saved thresholds, so no key
\* enters the active set on a comparison with a previous limit.
C27_NoEvaluationWithPreviousThresholds ==
    [][(last'.op = "resolved" /\ saves > 0) => last'.thr = Some(thresholds)]_vars

\* C30: the ten history series always have one common length, which is
\* min(number of successful ticks, 60), and the entry a snapshot without GPU
\* left in the gpu, gpuMem and gpuTemp series is 0.
C30_SeriesInStep ==
    LET k == Len(samples)
        m == Min(k, HistoryCapacity)
    IN  /\ \A a, b \in Series : Len(historicalData[a]) = Len(historicalData[b])
        /\ Len(historicalData.cpu) = m
        /\ \A j \in 1..m :
              Len(samples[k - m + j].gpus) = 0 =>
                 /\ historicalData.gpu[j] = 0
                 /\ historicalData.gpuMem[j] = 0
                 /\ historicalData.gpuTemp[j] = 0

\* The series are full; the latest snapshot had no GPU and the one before it
\* had one.
C30_Witness ==
    /\ Len(samples) > HistoryCapacity
    /\ Len(samples[Len(samples)].gpus) = 0
    /\ Len(samples[Len(samples) - 1].gpus) > 0
    /\ Len(historicalData.gpu) = HistoryCapacity
    /\ historicalData.gpu[HistoryCapacity] = 0
    /\ historicalData.gpu[HistoryCapacity - 1] > 0
    /\ Len(historicalData.netTx) = HistoryCapacity

\* The longest length the call may return: maxLength, or two lines of
\* charsPerLine characters
Limit(call) == IF call.fn = "formatFilenameForGrid" THEN 2 * call.arg ELSE call.arg

\* C23: truncateMiddle(filename, maxLength) never returns more than maxLength
\* characters, whatever the filename, its extension and maxLength.
C23_NeverLongerThanMaxLength ==
    truncation.result # Null => Len(truncation.result[1]) <= Limit(truncation)

\* C24: ArrowDown moves the selection forward by one and ArrowUp back by one,
\* both clamped, and whenever the suggestions are shown the selected index is
\* within 0 .. (number of suggestions - 1), after any keys, hovers, clicks
\* and query edits.
C24_SelectedIndexInRange ==
    [][/\ searchBox'.suggestions = suggestions(searchBox')
       /\ Shown(searchBox') =>
            searchBox'.selectedIndex \in 0..(Len(searchBox'.suggestions) - 1)
       /\ (searchBox'.event = "ArrowDown" /\ Shown(searchBox)) =>
            searchBox'.selectedIndex
               = Min(searchBox.selectedIndex + 1, Len(searchBox.suggestions) - 1)
       /\ (searchBox'.event = "ArrowUp" /\ Shown(searchBox)) =>
            searchBox'.selectedIndex
               = IF searchBox.selectedIndex = 0 THEN 0
                 ELSE searchBox.selectedIndex - 1]_vars

\* After a query edit ArrowDown has reached the last of several suggestions.
C24_Witness ==
    /\ Shown(searchBox)
    /\ searchBox.event = "ArrowDown"
    /\ searchBox.value # <<>>
    /\ Len(searchBox.suggestions) >= 3
    /\ searchBox.selectedIndex = Len(searchBox.suggestions) - 1

\* C28: once metrics are loaded, a poll result replaces the system part and
\* the process list and leaves the gpus list, with every GPU's current sample
\* and history, exactly as it was, whatever events and polls came before.
C28_PollKeepsGpus ==
    [][(desktopApp'.event.op = "pollResolved" /\ desktopApp.metrics # Null) =>
          /\ desktopApp'.metrics # Null
          /\ desktopApp'.metrics[1].gpus = desktopApp.metrics[1].gpus
          /\ desktopApp'.metrics[1].system = desktopApp'.event.data[1].system
          /\ desktopApp'.metrics[1].model_processes
                = desktopApp'.event.data[1].model_processes]_vars

\* A poll has resolved with other gpus than the ones on display, which carry
\* a sample delivered by an event.
C28_Witness ==
    /\ desktopApp.event.op = "pollResolved"
    /\ desktopApp.metrics # Null
    /\ desktopApp.metrics[1].gpus # desktopApp.event.data[1].gpus
    /\ desktopApp.metrics[1].system = desktopApp.event.data[1].system
    /\ \E i \in 1..Len(desktopApp.metrics[1].gpus) :
          desktopApp.metrics[1].gpus[i].current \in GpuSampleInputs

\* C29: a gpu-metrics event sets current and appends to the history of the
\* GPU whose info.id is the event's gpu_id, keeping the 120 most recent
\* samples, and changes nothing else; with an unknown gpu_id, or before the
\* metrics are loaded, the state is unchanged.
C29_EventUpdatesOneGpu ==
    [][desktopApp'.event.op = "gpuEvent" =>
          IF desktopApp.metrics = Null
          THEN desktopApp'.metrics = Null
          ELSE LET old    == desktopApp.metrics[1]
                   new    == desktopApp'.metrics[1]
                   gpu_id == desktopApp'.event.gpu_id
                   sample == desktopApp'.event.metrics
               IN  /\ desktopApp'.metrics # Null
                   /\ new.system = old.system
                   /\ new.model_processes = old.model_processes
                   /\ Len(new.gpus) = Len(old.gpus)
                   /\ \A i \in 1..Len(old.gpus) :
                         IF old.gpus[i].info.id = gpu_id
                         THEN /\ new.gpus[i].info = old.gpus[i].info
                              /\ new.gpus[i].current = sample
                              /\ Len(new.gpus[i].history) <= DesktopHistoryCapacity
                              /\ new.gpus[i].history
                                    = SliceLast(old.gpus[i].history \o <<sample>>,
                                                DesktopHistoryCapacity)
                         ELSE new.gpus[i] = old.gpus[i]
                   /\ (\A i \in 1..Len(old.gpus) : old.gpus[i].info.id # gpu_id)
                         => new = old]_vars

\* An event for the second GPU has pushed the oldest sample out of its full
\* history; the first GPU has not received it.
C29_Witness ==
    /\ desktopApp.event.op = "gpuEvent"
    /\ desktopApp.event.gpu_id = 1
    /\ desktopApp.metrics # Null
    /\ Len(desktopApp.metrics[1].gpus) = 2
    /\ Len(desktopApp.metrics[1].gpus[2].history) = DesktopHistoryCapacity
    /\ desktopApp.metrics[1].gpus[2].history[DesktopHistoryCapacity]
          = desktopApp.event.metrics
    /\ desktopApp.metrics[1].gpus[2].history[1] = 2
    /\ desktopApp.metrics[1].gpus[2].current = desktopApp.event.metrics
    /\ desktopApp.metrics[1].gpus[1].current = DesktopHistoryKeep
====
